---- MODULE Spec2Model ----
(***************************************************************************)
(* The attachment ingestion pipeline of src/index.tsx: file selection,     *)
(* image loading, document text extraction with progress and cancellation, *)
(* the attachment registry (attachedFiles, attachedDocs), the rendered     *)
(* pill list, removal, new chat and message sending.                       *)
(*                                                                         *)
(* JavaScript runs one handler at a time: every action below is the code   *)
(* that runs between two suspension points (await, an event callback).     *)
(* The for-of loop of handleFileSelected is cut at the top of each         *)
(* iteration (pc = "loop"); nothing else can run while pc = "loop".        *)
(***************************************************************************)
EXTENDS Integers, Sequences, FiniteSets, TLC

\* ---------------------------------------------------------------- bounds
MaxBatch == 2
MaxAttachments == 2
MaxHistory == 3

ImageType == "image/png"
TextType == "text/plain"
PdfType == "application/pdf"
OtherType == "video/mp4"
PageCounts == {1, 2}

\* The PDF of one page is a.pdf, the PDF of two pages b.pdf.
PdfName(p) == IF p = 1 THEN "a.pdf" ELSE "b.pdf"

\* The files the user can select: a name, the MIME type the browser derives
\* from it, and (for a PDF) the number of pages the parser will find. A batch
\* may hold the same file, or files of the same name, more than once.
FileSet ==
  {[name |-> "a.png", type |-> ImageType, numPages |-> 0],
   [name |-> "a.txt", type |-> TextType, numPages |-> 0],
   [name |-> "a.mp4", type |-> OtherType, numPages |-> 0]}
    \cup {[name |-> PdfName(p), type |-> PdfType, numPages |-> p] : p \in PageCounts}

Batches == UNION {[1..k -> FileSet] : k \in 1..MaxBatch}

VARIABLES
  clock,               \* Date.now(), counted in the distinct values the program has read
  stamped,             \* an attachment id has been composed from the current clock value
  attachedFiles,       \* the registry's images
  attachedDocs,        \* the registry's documents
  pills,               \* the children of attachmentsContainer
  formEnabled,         \* chatInput, sendButton and the upload buttons are enabled
  readers,             \* FileReaders whose onload has not fired yet
  hfs,                 \* the running handleFileSelected call and its current extraction
  submit,              \* handleChatFormSubmit: "idle", or "sending" while it awaits the chat service
  currentChatHistory,
  lastMessage,         \* the message parts of the chat.sendMessageStream call in flight
  nextUid,             \* object identity of the next attachment object created
  extracting,          \* history: documents whose extraction started and has not terminated
  cancelled,           \* history: documents removed by removeAttachment while extracting
  drained,             \* history: the registry was cleared and no file has been selected since
  last                 \* history: the handler step that ran last

vars == <<clock, stamped, attachedFiles, attachedDocs, pills, formEnabled, readers, hfs, submit,
          currentChatHistory, lastMessage, nextUid, extracting, cancelled, drained, last>>

\* ---------------------------------------------------------------- helpers
IsImage(file) == file.type = ImageType
IsDocument(file) == file.type = TextType \/ file.type = PdfType

\* `${file.name}-${Date.now()}` (line 267): the name and the clock value, kept
\* apart (the digits after the last '-' are the clock value).
FileId(file, now) == <<file.name, now>>

Ids(seq) == [i \in 1..Len(seq) |-> seq[i].id]
Uids(seq) == {seq[i].uid : i \in 1..Len(seq)}

\* The filter that keeps nothing.
FilterOutId_All(seq, id) == SelectSeq(seq, LAMBDA x : FALSE)

\* The filter with its test inverted (=== for !==).
FilterOutId_Inverted(seq, id) == SelectSeq(seq, LAMBDA x : x.id = id)

\* array.filter(x => x.id !== id)
FilterOutId(seq, id) == SelectSeq(seq, LAMBDA x : x.id # id)

\* attachedDocs.find(d => d.id === id): the index of the first match, 0 if none
FindById(seq, id) ==
  IF \E i \in 1..Len(seq) : seq[i].id = id
    THEN CHOOSE i \in 1..Len(seq) : seq[i].id = id /\ \A j \in 1..(i - 1) : seq[j].id # id
    ELSE 0

\* document.getElementById(id) on the attached pills: the first one in document order
GetElementById(ps, id) == FindById(ps, id)

\* 15 + (numPages / i) * 70: the quotient upside down.
PagePercentage_Inverted(i, numPages) == <<15 * i + 70 * numPages, i>>

\* 15 + (i / numPages) * 70, kept exact as <<numerator, denominator>>
PagePercentage(i, numPages) == <<15 * numPages + 70 * i, numPages>>

\* Math.max(0, Math.min(100, percentage))
Clamp(pct) ==
  IF pct[1] > 100 * pct[2] THEN <<100, 1>>
  ELSE IF pct[1] < 0 THEN <<0, 1>>
  ELSE pct

Hidden == <<0, 0>>   \* updateProgress called without a percentage

\* One pill as renderAttachments builds it: not processing, not errored, the
\* attachment's name as label, the progress bar hidden.
NewPill(a) ==
  [id |-> a.id, uid |-> a.uid, kind |-> a.type, processing |-> FALSE, error |-> FALSE,
   text |-> IF a.type = "doc" THEN a.name ELSE "", page |-> 0, of |-> 0,
   hidden |-> TRUE, width |-> <<0, 1>>]

\* renderAttachments without the reset of the container (line 357).
RenderAttachments_NoClear(files, docs) ==
  LET all == files \o docs
  IN  pills \o [i \in 1..Len(all) |-> NewPill(all[i])]

\* renderAttachments (lines 356-400): the container is emptied and one pill
\* is built per attachment, images first.
RenderAttachments(files, docs) ==
  LET all == files \o docs
  IN  [i \in 1..Len(all) |-> NewPill(all[i])]

\* updateProgress(status, percentage) of the extraction that holds pill p
\* (p = 0: the pill it looked up is no longer in the document, so nothing
\* rendered changes; an image pill has no .file-name, so nameEl is null).
UpdateProgress(ps, p, status, page, of, pct) ==
  IF p = 0 \/ ps[p].kind # "doc" THEN ps
  ELSE IF pct = Hidden
    THEN [ps EXCEPT ![p].text = status, ![p].page = page, ![p].of = of,
                    ![p].hidden = TRUE, ![p].width = <<0, 1>>]
    ELSE [ps EXCEPT ![p].text = status, ![p].page = page, ![p].of = of,
                    ![p].hidden = FALSE, ![p].width = Clamp(pct)]

\* One call of updateProgress, as the extraction makes it: the status, the
\* page numbers the status names, and the percentage (Hidden: none passed).
ProgressEvent(status, page, of, pct) == [status |-> status, page |-> page, of |-> of, pct |-> pct]

\* The extraction h has called updateProgress once more (history).
Emitted(h, status, page, of, pct) ==
  [h EXCEPT !.events = Append(@, ProgressEvent(status, page, of, pct))]

SetProcessing(ps, p, on) == IF p = 0 THEN ps ELSE [ps EXCEPT ![p].processing = on]
SetError(ps, p) == IF p = 0 THEN ps ELSE [ps EXCEPT ![p].error = TRUE]

\* ---------------------------------------------------------------- state
NoId == <<"", 0>>

\* handleFileSelected is not running.
Idle ==
  [pc |-> "idle", files |-> <<>>, idx |-> 1, fileId |-> NoId, uid |-> 0, name |-> "",
   type |-> "", pill |-> 0, textContent |-> <<>>, i |-> 0, numPages |-> 0, aborted |-> FALSE,
   events |-> <<>>, started |-> 0]

\* The suspension points of one extraction (the awaits of lines 305-315).
Awaiting == {"text", "bytes", "parse", "getPage", "pageText"}
\* The awaited calls that are given abortController.signal (lines 310, 315).
Signalled == {"parse", "pageText"}

Step(op) ==
  [op |-> op, asked |-> FALSE, removed |-> FALSE, extracting |-> FALSE,
   aborted |-> FALSE, inRegistry |-> FALSE, target |-> 0]

\* A step of the extraction task that hfs holds.
TaskStep(op) ==
  [Step(op) EXCEPT !.aborted = hfs.aborted, !.removed = hfs.uid \in cancelled,
                   !.extracting = hfs.uid \in extracting,
                   !.inRegistry = hfs.uid \in Uids(attachedDocs)]

WelcomeMessage == [sender |-> "ai", text |-> <<"welcome">>, attachments |-> 0]

\* The state once initializeApp has run: the chat holds the welcome message,
\* the registry is empty and the form is enabled.
Init ==
  /\ clock = 0
  /\ stamped = FALSE
  /\ attachedFiles = <<>>
  /\ attachedDocs = <<>>
  /\ pills = <<>>
  /\ formEnabled = TRUE
  /\ readers = {}
  /\ hfs = Idle
  /\ submit = "idle"
  /\ currentChatHistory = <<WelcomeMessage>>
  /\ lastMessage = <<>>
  /\ nextUid = 1
  /\ extracting = {}
  /\ cancelled = {}
  /\ drained = FALSE
  /\ last = Step("init")

\* Nothing runs between two iterations of the for-of loop.
Quiet == hfs.pc # "loop"

\* Date.now() moves on. The clock is read at the top of a loop iteration only
\* (line 267) and only the equality of the values read matters, so an
\* advance counts when an id was composed from the current value.
Tick ==
  /\ hfs.pc = "loop" /\ hfs.idx <= Len(hfs.files)
  /\ stamped
  /\ clock' = clock + 1
  /\ stamped' = FALSE
  /\ UNCHANGED <<attachedFiles, attachedDocs, pills, formEnabled, readers, hfs, submit,
                 currentChatHistory, lastMessage, nextUid, extracting, cancelled, drained, last>>

\* ---------------------------------------------------------------- handleFileSelected
\* The change event of the file input: reachable through the upload buttons
\* only, which toggleChatForm disables.
HandleFileSelected ==
  /\ formEnabled
  /\ Quiet
  /\ \E files \in Batches :
       /\ nextUid + Len(files) <= MaxAttachments + 1
       /\ hfs' = [Idle EXCEPT !.pc = "loop", !.files = files, !.idx = 1]
  /\ formEnabled' = FALSE
  /\ drained' = FALSE
  /\ last' = Step("select")
  /\ UNCHANGED <<clock, stamped, attachedFiles, attachedDocs, pills, readers, submit, 
                 currentChatHistory, lastMessage, nextUid, extracting, cancelled>>

\* The loop moves to the next file; the locals of the iteration are gone
\* (the calls of updateProgress the iteration made are kept as history until
\* the loop takes its next step).
ContinueLoop(h) ==
  [Idle EXCEPT !.pc = "loop", !.files = h.files, !.idx = h.idx + 1, !.events = h.events,
               !.started = h.started]

\* `return` inside the loop: the call ends, the rest of the function is skipped.
Returned(h) == [Idle EXCEPT !.files = h.files, !.idx = h.idx]

\* The call of `stage` is started but not awaited: the loop goes on.
Suspend_NoAwait(h, stage) == ContinueLoop(h)

\* The task awaits the call of `stage` and the loop with it.
Suspend(h, stage) == [h EXCEPT !.pc = stage]

\* An image file: a FileReader is started, the loop goes on (lines 268-276).
StartImageRead ==
  /\ hfs.pc = "loop" /\ hfs.idx <= Len(hfs.files)
  /\ LET file == hfs.files[hfs.idx]
     IN  /\ IsImage(file)
         /\ readers' = readers \cup
              {[type |-> "file", id |-> FileId(file, clock), name |-> file.name, uid |-> nextUid]}
  /\ nextUid' = nextUid + 1
  /\ hfs' = ContinueLoop([hfs EXCEPT !.events = <<>>, !.started = @ + 1])
  /\ stamped' = TRUE
  /\ last' = Step("readImage")
  /\ UNCHANGED <<clock, attachedFiles, attachedDocs, pills, formEnabled, submit, 
                 currentChatHistory, lastMessage, extracting, cancelled, drained>>

\* A file that is neither image/*, text/plain nor application/pdf.
SkipUnsupported ==
  /\ hfs.pc = "loop" /\ hfs.idx <= Len(hfs.files)
  /\ LET file == hfs.files[hfs.idx]
     IN  ~IsImage(file) /\ ~IsDocument(file)
  /\ hfs' = ContinueLoop([hfs EXCEPT !.events = <<>>])
  /\ last' = Step("skip")
  /\ UNCHANGED <<clock, stamped, attachedFiles, attachedDocs, pills, formEnabled, readers, submit,
                 currentChatHistory, lastMessage, nextUid, extracting, cancelled, drained>>

\* A document: it is appended to the registry, rendered, its pill looked up
\* and marked processing, the first progress reported, and the task suspends
\* on reading the file (lines 277-308).
StartExtraction ==
  /\ hfs.pc = "loop" /\ hfs.idx <= Len(hfs.files)
  /\ LET file == hfs.files[hfs.idx]
         fileId == FileId(file, clock)
         doc == [type |-> "doc", id |-> fileId, name |-> file.name, textContent |-> <<>>,
                 abortController |-> TRUE, uid |-> nextUid]
         docs == Append(attachedDocs, doc)
         rendered == RenderAttachments(attachedFiles, docs)
         pill == GetElementById(rendered, fileId)
         marked == SetProcessing(rendered, pill, TRUE)
         task == [hfs EXCEPT !.events = <<>>, !.started = @ + 1, !.fileId = fileId,
                             !.uid = nextUid, !.name = file.name,
                             !.type = file.type, !.pill = pill, !.numPages = file.numPages]
     IN  /\ IsDocument(file)
         /\ attachedDocs' = docs
         /\ IF file.type = TextType
              THEN /\ pills' = UpdateProgress(marked, pill, "Reading document...", 0, 0, <<25, 1>>)
                   /\ hfs' = Suspend(Emitted(task, "Reading document...", 0, 0, <<25, 1>>), "text")
              ELSE /\ pills' = UpdateProgress(marked, pill, "Reading document...", 0, 0, <<5, 1>>)
                   /\ hfs' = Suspend(Emitted(task, "Reading document...", 0, 0, <<5, 1>>), "bytes")
  /\ extracting' = extracting \cup {nextUid}
  /\ last' = Step("startExtraction")
  /\ nextUid' = nextUid + 1
  /\ stamped' = TRUE
  /\ UNCHANGED <<clock, attachedFiles, formEnabled, readers, submit, 
                 currentChatHistory, lastMessage, cancelled, drained>>

\* The loop is over: the form is enabled again (lines 337-339).
FinishBatch ==
  /\ hfs.pc = "loop" /\ hfs.idx > Len(hfs.files)
  /\ hfs' = Idle
  /\ formEnabled' = TRUE
  /\ last' = Step("finishBatch")
  /\ UNCHANGED <<clock, stamped, attachedFiles, attachedDocs, pills, readers, submit, 
                 currentChatHistory, lastMessage, nextUid, extracting, cancelled, drained>>

\* ---------------------------------------------------------------- the extraction task
ErrorText == "Error: Could not read file."

\* The text is stored by id-less upsert: a document that is no longer in the
\* registry is put back.
SetTextContent_Reinsert(docs, uid, text) ==
  IF uid \in Uids(docs)
    THEN [k \in 1..Len(docs) |-> IF docs[k].uid = uid THEN [docs[k] EXCEPT !.textContent = text]
                                                      ELSE docs[k]]
    ELSE Append(docs, [type |-> "doc", id |-> hfs.fileId, name |-> hfs.name,
                       textContent |-> text, abortController |-> TRUE, uid |-> uid])

\* doc.textContent = textContent (line 320): a write to the document object
\* the task holds, visible in the registry only if that object is still in it.
SetTextContent(docs, uid, text) ==
  [k \in 1..Len(docs) |-> IF docs[k].uid = uid THEN [docs[k] EXCEPT !.textContent = text]
                                                ELSE docs[k]]

\* The catch block returns on every error, as it does on AbortError.
AfterFailure_Returns(h) == Returned(h)

\* What follows the catch block of a failure other than abort (lines 327-335).
AfterFailure(h) == ContinueLoop(h)

\* Lines 320-321 and the finally block: the text is stored, the file name
\* reported with the bar hidden, the processing flag removed.
Complete(text) ==
  /\ attachedDocs' = SetTextContent(attachedDocs, hfs.uid, text)
  /\ pills' = SetProcessing(UpdateProgress(pills, hfs.pill, hfs.name, 0, 0, Hidden),
                            hfs.pill, FALSE)
  /\ hfs' = ContinueLoop(Emitted(hfs, hfs.name, 0, 0, Hidden))
  /\ extracting' = extracting \ {hfs.uid}
  /\ last' = TaskStep("success")
  /\ UNCHANGED <<clock, stamped, attachedFiles, formEnabled, readers, submit, 
                 currentChatHistory, lastMessage, nextUid, cancelled, drained>>

\* file.text() resolves.
TextRead ==
  /\ hfs.pc = "text"
  /\ Complete(<<0>>)

\* file.arrayBuffer() resolves: "Parsing PDF..." at 15, getDocument is awaited.
BytesRead ==
  /\ hfs.pc = "bytes"
  /\ pills' = UpdateProgress(pills, hfs.pill, "Parsing PDF...", 0, 0, <<15, 1>>)
  /\ hfs' = Suspend(Emitted(hfs, "Parsing PDF...", 0, 0, <<15, 1>>), "parse")
  /\ last' = TaskStep("progress")
  /\ UNCHANGED <<clock, stamped, attachedFiles, attachedDocs, formEnabled, readers, submit, 
                 currentChatHistory, lastMessage, nextUid, extracting, cancelled, drained>>

\* getDocument(...).promise resolves: the page loop starts at page 1. (The
\* parser is outside this repository: a call it had finished before the
\* signal was aborted still resolves.)
Parsed ==
  /\ hfs.pc = "parse"
  /\ pills' = UpdateProgress(pills, hfs.pill, "Extracting text", 1, hfs.numPages,
                             PagePercentage(1, hfs.numPages))
  /\ hfs' = Suspend(Emitted([hfs EXCEPT !.i = 1], "Extracting text", 1, hfs.numPages,
                             PagePercentage(1, hfs.numPages)), "getPage")
  /\ last' = TaskStep("progress")
  /\ UNCHANGED <<clock, stamped, attachedFiles, attachedDocs, formEnabled, readers, submit, 
                 currentChatHistory, lastMessage, nextUid, extracting, cancelled, drained>>

\* pdf.getPage(i) resolves: page.getTextContent is awaited.
PageGot ==
  /\ hfs.pc = "getPage"
  /\ hfs' = Suspend(hfs, "pageText")
  /\ last' = TaskStep("page")
  /\ UNCHANGED <<clock, stamped, attachedFiles, attachedDocs, pills, formEnabled, readers, submit,
                 currentChatHistory, lastMessage, nextUid, extracting, cancelled, drained>>

\* page.getTextContent(...) resolves: the page's text is appended; either the
\* next page is reported and requested, or the extraction completes.
PageTextRead ==
  /\ hfs.pc = "pageText"
  /\ LET text == Append(hfs.textContent, hfs.i)
     IN  IF hfs.i < hfs.numPages
           THEN /\ pills' = UpdateProgress(pills, hfs.pill, "Extracting text", hfs.i + 1,
                                           hfs.numPages, PagePercentage(hfs.i + 1, hfs.numPages))
                /\ hfs' = Suspend(Emitted([hfs EXCEPT !.textContent = text, !.i = hfs.i + 1],
                                           "Extracting text", hfs.i + 1, hfs.numPages,
                                           PagePercentage(hfs.i + 1, hfs.numPages)), "getPage")
                /\ last' = TaskStep("progress")
                /\ UNCHANGED <<clock, stamped, attachedFiles, attachedDocs, formEnabled, readers, submit,
                               currentChatHistory, lastMessage, nextUid, extracting,
                               cancelled, drained>>
           ELSE Complete(text)

\* Any awaited call rejects with an error other than AbortError (lines 327-333).
ExtractionFailed ==
  /\ hfs.pc \in Awaiting
  /\ attachedDocs' = FilterOutId(attachedDocs, hfs.fileId)
  /\ pills' = SetProcessing(
                UpdateProgress(SetError(pills, hfs.pill), hfs.pill, ErrorText, 0, 0, Hidden),
                hfs.pill, FALSE)
  /\ hfs' = AfterFailure(Emitted(hfs, ErrorText, 0, 0, Hidden))
  /\ extracting' = extracting \ {hfs.uid}
  /\ last' = TaskStep("failure")
  /\ UNCHANGED <<clock, stamped, attachedFiles, formEnabled, readers, submit, 
                 currentChatHistory, lastMessage, nextUid, cancelled, drained>>

\* A call that was given the signal observes that the signal is aborted and
\* rejects with AbortError: handleFileSelected returns (lines 323-326, then
\* finally).
ExtractionAborted ==
  /\ hfs.pc \in Signalled /\ hfs.aborted
  /\ pills' = SetProcessing(pills, hfs.pill, FALSE)
  /\ hfs' = Returned(hfs)
  /\ extracting' = extracting \ {hfs.uid}
  /\ last' = TaskStep("aborted")
  /\ UNCHANGED <<clock, stamped, attachedFiles, attachedDocs, formEnabled, readers, submit, 
                 currentChatHistory, lastMessage, nextUid, cancelled, drained>>

\* ---------------------------------------------------------------- images
\* reader.onload (lines 270-275).
ImageLoaded ==
  /\ Quiet
  /\ \E r \in readers :
       /\ readers' = readers \ {r}
       /\ attachedFiles' = Append(attachedFiles, r)
       /\ last' = Step("imageLoaded")
  /\ pills' = RenderAttachments(attachedFiles', attachedDocs)
  /\ hfs' = [hfs EXCEPT !.pill = 0]
  /\ UNCHANGED <<clock, stamped, attachedDocs, formEnabled, submit, currentChatHistory,
                 lastMessage, nextUid, extracting, cancelled, drained>>

\* ---------------------------------------------------------------- removeAttachment
\* The remove button of pill p is clicked; answer is what confirm() returns
\* when it is consulted (lines 342-354).
RemoveAttachment ==
  /\ Quiet
  /\ \E p \in 1..Len(pills), answer \in BOOLEAN :
       LET id == pills[p].id
           isProcessing == pills[GetElementById(pills, id)].processing
           d == FindById(attachedDocs, id)
           gone == {attachedDocs[k].uid : k \in {j \in 1..Len(attachedDocs) : attachedDocs[j].id = id}}
           target == pills[p].uid
       IN  /\ isProcessing => answer
           /\ last' = [Step("remove") EXCEPT !.asked = ~isProcessing,
                         !.removed = (isProcessing \/ answer), !.target = target,
                         !.extracting = (target \in extracting /\ target \in Uids(attachedDocs))]
           /\ IF isProcessing \/ answer
                THEN /\ attachedFiles' = FilterOutId(attachedFiles, id)
                     /\ attachedDocs' = FilterOutId(attachedDocs, id)
                     /\ pills' = RenderAttachments(attachedFiles', attachedDocs')
                     /\ hfs' = [hfs EXCEPT !.pill = 0,
                                  !.aborted = @ \/ (d # 0 /\ hfs.pc \in Awaiting
                                                      /\ attachedDocs[d].uid = hfs.uid)]
                     /\ cancelled' = cancelled \cup (gone \cap extracting)
                ELSE UNCHANGED <<attachedFiles, attachedDocs, pills, hfs, cancelled>>
  /\ UNCHANGED <<clock, stamped, formEnabled, readers, submit, currentChatHistory,
                 lastMessage, nextUid, extracting, drained>>

\* ---------------------------------------------------------------- new chat
\* handleNewChat (lines 443-452) with initializeChat (lines 114-121). The one
\* await on the way, addMessage's `await marked.parse(text)`, is of a value
\* that is already there: it resumes before any event or I/O callback can
\* run, so the welcome message is recorded in the same step.
HandleNewChat ==
  /\ Quiet
  /\ currentChatHistory' = <<WelcomeMessage>>
  /\ attachedFiles' = <<>>
  /\ attachedDocs' = <<>>
  /\ pills' = RenderAttachments(<<>>, <<>>)
  /\ hfs' = [hfs EXCEPT !.pill = 0]
  /\ drained' = TRUE
  /\ last' = Step("newChat")
  /\ UNCHANGED <<clock, stamped, formEnabled, readers, submit, lastMessage, nextUid, extracting,
                 cancelled>>

\* ---------------------------------------------------------------- handleChatFormSubmit
\* What chatInput.value can hold: text is a sequence of characters.
Inputs == {<<>>, <<" ">>, <<"q">>, <<" ", "q", " ">>}

\* trim() that strips nothing.
Trim_None(s) == s

RECURSIVE TrimStart(_)
TrimStart(s) == IF s # <<>> /\ Head(s) = " " THEN TrimStart(Tail(s)) ELSE s

RECURSIVE TrimEnd(_)
TrimEnd(s) == IF s # <<>> /\ s[Len(s)] = " " THEN TrimEnd(SubSeq(s, 1, Len(s) - 1)) ELSE s

\* chatInput.value.trim() (line 180)
Trim(s) == TrimEnd(TrimStart(s))

\* A prompt is a sequence of pieces, each a tuple that starts with its kind:
\* a typed character, a document with its name and text, the separator line,
\* the instruction line.
Chars(s) == [k \in 1..Len(s) |-> <<"char", s[k]>>]
Separator == <<"---">>
Instruction == <<"Based on the document(s) provided, please respond to the following: ">>

\* `DOCUMENT: "${d.name}"\n\n${d.textContent}` (line 207)
DocumentText(d) == <<"DOCUMENT: ", d.name, d.textContent>>

\* strs.join('\n\n---\n\n')
RECURSIVE Join(_)
Join(strs) ==
  IF Len(strs) = 0 THEN <<>>
  ELSE IF Len(strs) = 1 THEN <<strs[1]>>
  ELSE <<strs[1], Separator>> \o Join(Tail(strs))

\* promptText (lines 205-209)
PromptText(docs, userInput) ==
  IF Len(docs) > 0
    THEN Join([k \in 1..Len(docs) |-> DocumentText(docs[k])])
           \o <<Separator, Instruction>> \o Chars(userInput)
    ELSE Chars(userInput)

InlinePart(f) == [kind |-> "inlineData", uid |-> f.uid, text |-> <<>>]
TextPart(promptText) == [kind |-> "text", uid |-> 0, text |-> promptText]

\* The parts with the text part first.
MessageParts_TextFirst(files, docs, userInput) ==
  (IF PromptText(docs, userInput) # <<>>
     THEN <<TextPart(PromptText(docs, userInput))>> ELSE <<>>)
    \o [k \in 1..Len(files) |-> InlinePart(files[k])]

\* messageParts (lines 197-212)
MessageParts(files, docs, userInput) ==
  [k \in 1..Len(files) |-> InlinePart(files[k])]
    \o (IF PromptText(docs, userInput) # <<>>
          THEN <<TextPart(PromptText(docs, userInput))>> ELSE <<>>)

\* Submit with nothing typed and nothing attached: return (line 183).
SubmitRejected ==
  /\ formEnabled /\ Quiet
  /\ \E input \in Inputs : Trim(input) = <<>> /\ Len(attachedFiles \o attachedDocs) = 0
  /\ last' = Step("submitRejected")
  /\ UNCHANGED <<clock, stamped, attachedFiles, attachedDocs, pills, formEnabled, readers, hfs, submit,
                 currentChatHistory, lastMessage, nextUid, extracting, cancelled, drained>>

\* Lines 180-223: the form is disabled, the user message recorded with the
\* attachments, the parts composed from the registry, the registry cleared
\* and rendered, the parts handed to chat.sendMessageStream. (The awaits of
\* addMessage on the way resume before any event or I/O callback can run.)
SubmitAccepted ==
  /\ formEnabled /\ Quiet
  /\ Len(currentChatHistory) + 2 <= MaxHistory
  /\ \E input \in Inputs :
       LET userInput == Trim(input)
       IN  /\ userInput # <<>> \/ Len(attachedFiles \o attachedDocs) > 0
           /\ currentChatHistory' = Append(currentChatHistory,
                 [sender |-> "user", text |-> userInput,
                  attachments |-> Len(attachedFiles \o attachedDocs)])
           /\ lastMessage' = MessageParts(attachedFiles, attachedDocs, userInput)
  /\ formEnabled' = FALSE
  /\ attachedFiles' = <<>>
  /\ attachedDocs' = <<>>
  /\ pills' = RenderAttachments(<<>>, <<>>)
  /\ hfs' = [hfs EXCEPT !.pill = 0]
  /\ submit' = "sending"
  /\ drained' = TRUE
  /\ last' = Step("submit")
  /\ UNCHANGED <<clock, stamped, readers, nextUid, extracting, cancelled>>

\* The response stream ends: the answer is recorded, the form enabled (232-239).
SubmitAnswered ==
  /\ Quiet
  /\ submit = "sending"
  /\ currentChatHistory' = Append(currentChatHistory,
        [sender |-> "ai", text |-> <<"response">>, attachments |-> 0])
  /\ submit' = "idle"
  /\ lastMessage' = <<>>
  /\ formEnabled' = TRUE
  /\ last' = Step("answered")
  /\ UNCHANGED <<clock, stamped, attachedFiles, attachedDocs, pills, readers, hfs,
                 nextUid, extracting, cancelled, drained>>

\* The chat service fails: nothing is recorded, the form enabled (235-239).
SubmitFailed ==
  /\ Quiet
  /\ submit = "sending"
  /\ submit' = "idle"
  /\ lastMessage' = <<>>
  /\ formEnabled' = TRUE
  /\ last' = Step("sendFailed")
  /\ UNCHANGED <<clock, stamped, attachedFiles, attachedDocs, pills, readers, hfs,
                 currentChatHistory, nextUid, extracting, cancelled, drained>>

\* ---------------------------------------------------------------- specification
Next ==
  \/ Tick
  \/ HandleFileSelected
  \/ StartImageRead
  \/ SkipUnsupported
  \/ StartExtraction
  \/ FinishBatch
  \/ TextRead
  \/ BytesRead
  \/ Parsed
  \/ PageGot
  \/ PageTextRead
  \/ ExtractionFailed
  \/ ExtractionAborted
  \/ ImageLoaded
  \/ RemoveAttachment
  \/ HandleNewChat
  \/ SubmitRejected
  \/ SubmitAccepted
  \/ SubmitAnswered
  \/ SubmitFailed

Spec == Init /\ [][Next]_vars

\* The steps the program takes without the user: the loop goes on between two
\* awaits, an awaited call settles, a FileReader fires onload, the chat service
\* answers or fails. Clicks, selections and submits need not happen.
LoopStep == StartImageRead \/ SkipUnsupported \/ StartExtraction \/ FinishBatch
Settled ==
  TextRead \/ BytesRead \/ Parsed \/ PageGot \/ PageTextRead \/ ExtractionFailed \/ ExtractionAborted

LiveSpec ==
  /\ Spec
  /\ WF_vars(LoopStep)
  /\ WF_vars(Settled)
  /\ WF_vars(ImageLoaded)
  /\ WF_vars(SubmitAnswered \/ SubmitFailed)

\* ---------------------------------------------------------------- sanity
TypeOK ==
  /\ clock \in 0..MaxAttachments
  /\ hfs.pc \in {"idle", "loop"} \cup Awaiting
  /\ formEnabled \in BOOLEAN
  /\ nextUid \in 1..(MaxAttachments + 1)
  /\ hfs.pill \in 0..Len(pills)

\* Only one handleFileSelected or handleChatFormSubmit call is ever running.
SingleHandler ==
  /\ formEnabled => hfs.pc = "idle" /\ submit = "idle"
  /\ ~(hfs.pc # "idle" /\ submit # "idle")

\* ---------------------------------------------------------------- claims
RegistryIds == Ids(attachedFiles \o attachedDocs)
Supported(file) == IsImage(file) \/ IsDocument(file)
TaskOps == {"progress", "page", "success", "failure", "aborted"}

\* C1: cancelling one document's extraction does not affect the others: once
\* handleFileSelected has stopped, no supported file of its batch is left
\* without having been processed.
C1_SiblingsStillProcessed ==
  hfs.pc = "idle" =>
    \A j \in (hfs.idx + 1)..Len(hfs.files) : ~Supported(hfs.files[j])

\* C2: a document removed by removeAttachment while its extraction was in
\* progress is never in the registry again, and no rendered pill ever shows
\* an error for it.
C2_CancelledStaysGone ==
  \A u \in cancelled :
    /\ u \notin Uids(attachedDocs)
    /\ \A p \in 1..Len(pills) : pills[p].uid = u => ~pills[p].error

\* C2 witness: the extraction of a cancelled document has failed afterwards.
C2_Witness == last.op = "failure" /\ last.removed /\ ~last.inRegistry

\* C3: once a document's cancellation handle is signaled, its task takes no
\* further extraction step and reports no completion.
C3_NoStepAfterSignal ==
  ~(last.op \in {"progress", "page", "success"} /\ last.aborted)

\* C4 (as claimed): the documents of a batch are extracted concurrently: while
\* one document of the batch is being extracted, every document of the batch
\* has been appended to the registry and started.
C4_BatchExtractedConcurrently ==
  hfs.pc \in Awaiting =>
    \A j \in 1..Len(hfs.files) : IsDocument(hfs.files[j]) => j <= hfs.idx

\* C4 (amended): the documents of a batch are extracted one after another: at
\* most one extraction is in progress at any time, and it is the one of the
\* file the loop is at.
C4_OneExtractionAtATime ==
  /\ Cardinality(extracting) <= 1
  /\ extracting = (IF hfs.pc \in Awaiting THEN {hfs.uid} ELSE {})

\* C4 witness: the second document of a batch is being extracted, the first
\* having terminated.
C4_Witness ==
  /\ hfs.pc \in Awaiting /\ hfs.idx = 2
  /\ IsDocument(hfs.files[1])
  /\ extracting = {hfs.uid}

\* C5: a failure other than abort does not end the batch: the step that
\* handles it leaves handleFileSelected at the next file of the same batch.
C5_FailureContinuesBatch ==
  [][(hfs.pc \in Awaiting /\ last'.op = "failure")
       => (hfs'.pc = "loop" /\ hfs'.files = hfs.files /\ hfs'.idx = hfs.idx + 1)]_vars

\* C5 witness: an extraction has failed and a supported file of the batch is
\* next in the loop.
C5_Witness ==
  /\ last.op = "failure" /\ hfs.pc = "loop"
  /\ hfs.idx <= Len(hfs.files) /\ Supported(hfs.files[hfs.idx])

\* C6: a document in the registry has a cancellation handle if and only if its
\* extraction is in progress.
C6_HandleIffExtracting ==
  \A k \in 1..Len(attachedDocs) :
    attachedDocs[k].abortController <=> attachedDocs[k].uid \in extracting

\* C7: removing a document of the registry whose extraction is in progress
\* never consults the confirm prompt.
C7_NoConfirmWhileExtracting ==
  ~(last.op = "remove" /\ last.extracting /\ last.asked)

\* C8 (as claimed): the rendered pills are those of the registry, images first
\* then documents, in registry order.
C8_PillsMatchRegistry == Ids(pills) = RegistryIds

\* C8 (amended): every step that changes the registry leaves the pills equal to
\* the new registry, except the removal on extraction failure, which renders
\* nothing: the pills still are those of the registry before the failure.
C8_PillsMatchAfterMutation ==
  [][(<<attachedFiles, attachedDocs>>' # <<attachedFiles, attachedDocs>>)
       => IF hfs.pc \in Awaiting /\ last'.op = "failure"
            THEN Ids(pills') = RegistryIds
            ELSE Ids(pills') = RegistryIds']_vars

\* C8 witness: a failed document has left the registry and its errored pill is
\* still rendered.
C8_Witness ==
  /\ last.op = "failure" /\ last.inRegistry
  /\ Len(pills) > Len(RegistryIds)
  /\ \E p \in 1..Len(pills) : pills[p].error

\* C9: whatever the extraction task of a document that is no longer in the
\* registry does (progress, completion, failure, abort) changes neither the
\* registry nor any rendered pill.
C9_LateResultDiscarded ==
  [][(hfs.pc \in Awaiting /\ hfs.uid \notin Uids(attachedDocs) /\ last'.op \in TaskOps)
       => (attachedFiles' = attachedFiles /\ attachedDocs' = attachedDocs /\ pills' = pills)]_vars

\* C9 witness: an extraction has completed for a document that had left the
\* registry, while the registry held other attachments.
C9_Witness == last.op = "success" /\ ~last.inRegistry /\ Len(pills) > 0

\* C10: no send is accepted while a selected image is still not in the registry.
C10_ImageLoadedBeforeSend == last.op = "submit" => readers = {}

\* The attachments of seq whose id is not id, in the order of seq.
OthersOf(seq, id) == SelectSeq(seq, LAMBDA x : x.id # id)

\* The id of the rendered pill of attachment object u.
PillIdOf(u) == pills[CHOOSE p \in 1..Len(pills) : pills[p].uid = u].id

\* C11: removing through a pill that is not marked processing consults the
\* prompt; declined, neither registry sequence changes and no cancellation
\* handle is signaled; confirmed, the attachments with the pill's id leave the
\* registry and every attachment with another id stays, in the same order.
C11_RemoveCompleted ==
  [][(last'.op = "remove" /\ last'.asked)
       => IF last'.removed
            THEN /\ attachedFiles' = OthersOf(attachedFiles, PillIdOf(last'.target))
                 /\ attachedDocs' = OthersOf(attachedDocs, PillIdOf(last'.target))
            ELSE /\ attachedFiles' = attachedFiles
                 /\ attachedDocs' = attachedDocs
                 /\ hfs'.aborted = hfs.aborted]_vars

\* C11 witness: one of two attachments with different ids has been removed on
\* confirmation and the other is still in the registry.
C11_Witness ==
  /\ last.op = "remove" /\ last.asked /\ last.removed
  /\ Len(attachedFiles \o attachedDocs) = 1
  /\ last.target \notin Uids(attachedFiles \o attachedDocs)
  /\ last.target \notin extracting

\* C12: no two attachments of the registry, images and documents together,
\* have the same id.
C12_UniqueIds ==
  \A i, j \in 1..Len(RegistryIds) : i # j => RegistryIds[i] # RegistryIds[j]

\* C13: when the extraction of a document of the registry fails with an error
\* other than abort, the document leaves the registry and its rendered pill is
\* marked errored, shows ErrorText, has its progress bar hidden and is not
\* marked processing.
C13_FailureShownOnPill ==
  [][(hfs.pc \in Awaiting /\ last'.op = "failure" /\ hfs.uid \in Uids(attachedDocs))
       => /\ hfs.uid \notin Uids(attachedDocs')
          /\ \E p \in 1..Len(pills') :
               /\ pills'[p].uid = hfs.uid
               /\ pills'[p].error /\ pills'[p].text = ErrorText
               /\ pills'[p].hidden /\ ~pills'[p].processing]_vars

\* The progress events the claim lists for a PDF of P pages named name.
ExpectedPdfEvents(name, P) ==
  <<ProgressEvent("Reading document...", 0, 0, <<5, 1>>),
    ProgressEvent("Parsing PDF...", 0, 0, <<15, 1>>)>>
    \o [i \in 1..P |-> ProgressEvent("Extracting text", i, P, <<15 * P + 70 * i, P>>)]
    \o <<ProgressEvent(name, 0, 0, Hidden)>>

\* The percentages of evs are within [0, 100] and never decrease.
PercentagesOrdered(evs) ==
  LET shown == SelectSeq(evs, LAMBDA e : e.pct # Hidden)
  IN  /\ \A k \in 1..Len(shown) :
           0 <= shown[k].pct[1] /\ shown[k].pct[1] <= 100 * shown[k].pct[2]
      /\ \A k \in 1..(Len(shown) - 1) :
           shown[k].pct[1] * shown[k + 1].pct[2] <= shown[k + 1].pct[1] * shown[k].pct[2]

\* C14: the extraction of a PDF of P pages that completes has called
\* updateProgress with "Reading document..." at 5, "Parsing PDF..." at 15, the
\* pages 1..P in order, page i at 15 + 70*i/P, then the file name without a
\* percentage; the percentages are within [0, 100] and never decrease; and
\* page i is requested only when the text of the i-1 pages before it has been
\* appended.
C14_PdfProgressSequence ==
  /\ [](hfs.pc \in {"getPage", "pageText"} => Len(hfs.textContent) = hfs.i - 1)
  /\ [][(last'.op = "success" /\ hfs.type = PdfType)
          => /\ hfs'.events = ExpectedPdfEvents(hfs.name, hfs.numPages)
             /\ PercentagesOrdered(hfs'.events)]_vars

\* C14 witness: the extraction of a two-page PDF has just completed, having
\* reported five progress events, and its two pages of text are in the registry.
C14_Witness ==
  /\ last.op = "success" /\ last.inRegistry /\ ~last.aborted
  /\ Len(hfs.events) = 5
  /\ \E k \in 1..Len(attachedDocs) : attachedDocs[k].textContent = <<1, 2>>

\* C15: when handleFileSelected ends, the files of its batch for which it has
\* created an attachment (a document of the registry, or the FileReader that
\* appends the image) are as many as the batch's files of a supported type.
C15_SupportedFilesAttached ==
  [][(hfs.pc # "idle" /\ hfs'.pc = "idle")
       => hfs.started = Cardinality({j \in 1..Len(hfs.files) : Supported(hfs.files[j])})]_vars

\* The pieces of a prompt that are documents, in order.
DocumentsOf(prompt) == SelectSeq(prompt, LAMBDA t : t[1] = "DOCUMENT: ")

\* C16: the parts handed to the chat service on an accepted send are one
\* inline part per image of the registry, in registry order, then at most one
\* text part. With documents in the registry the text part holds every
\* document once, as DOCUMENT: name and text, in registry order, then the
\* instruction line, then the typed text; without documents it is the typed
\* text, and is absent when that is empty.
C16_ComposedPayload ==
  [][(last'.op = "submit")
       => LET n == Len(attachedFiles)
              parts == lastMessage'
              userInput == currentChatHistory'[Len(currentChatHistory')].text
          IN  /\ Len(parts) \in {n, n + 1}
              /\ \A k \in 1..n : parts[k].kind = "inlineData" /\ parts[k].uid = attachedFiles[k].uid
              /\ Len(parts) = n + 1 => parts[n + 1].kind = "text"
              /\ IF Len(attachedDocs) > 0
                   THEN /\ Len(parts) = n + 1
                        /\ LET prompt == parts[n + 1].text
                                m == Len(prompt) - Len(userInput)
                           IN  /\ DocumentsOf(prompt) =
                                    [k \in 1..Len(attachedDocs) |->
                                       <<"DOCUMENT: ", attachedDocs[k].name, attachedDocs[k].textContent>>]
                               /\ m >= 2 /\ prompt[m] = Instruction
                               /\ DocumentsOf(SubSeq(prompt, 1, m)) = DocumentsOf(prompt)
                               /\ SubSeq(prompt, m + 1, Len(prompt)) = Chars(userInput)
                   ELSE IF userInput # <<>>
                          THEN Len(parts) = n + 1 /\ parts[n + 1].text = Chars(userInput)
                          ELSE Len(parts) = n]_vars

\* C16 witness: a message composed from a registry of one image and one
\* extracted document has been handed to the chat service.
C16_Witness ==
  /\ last.op = "submit" /\ Len(lastMessage) = 2
  /\ lastMessage[1].kind = "inlineData"
  /\ Len(DocumentsOf(lastMessage[2].text)) = 1
  /\ DocumentsOf(lastMessage[2].text)[1][3] # <<>>

\* C17: a submit with an empty registry and typed text that is empty or only
\* whitespace changes nothing: chat history, message in flight, registry,
\* pills and the enabled form stay as they are; and no send is accepted from
\* an empty registry unless the text recorded for it holds a character that
\* is not whitespace.
C17_EmptySubmitRejected ==
  [][/\ (last'.op = "submitRejected")
          => /\ UNCHANGED <<currentChatHistory, lastMessage, submit, attachedFiles, attachedDocs,
                            pills, readers, hfs>>
             /\ formEnabled /\ formEnabled'
     /\ (last'.op = "submit" /\ Len(attachedFiles \o attachedDocs) = 0)
          => LET text == currentChatHistory'[Len(currentChatHistory')].text
             IN  \E k \in 1..Len(text) : text[k] # " "]_vars

\* C17 witness: a submit of nothing has just been rejected, the chat still
\* holding the welcome message only.
C17_Witness ==
  /\ last.op = "submitRejected"
  /\ Len(attachedFiles \o attachedDocs) = 0
  /\ currentChatHistory = <<WelcomeMessage>> /\ submit = "idle" /\ formEnabled

\* C18: whenever handleFileSelected is running, the form is enabled again
\* later, whatever way its extractions end.
C18_FormReenabled == (hfs.pc # "idle") ~> formEnabled

\* C19: from the moment an accepted send or a new chat has cleared the registry
\* until the next file selection, the registry is empty.
C19_EmptyUntilNextSelection == drained => Len(attachedFiles \o attachedDocs) = 0

\* The text a completed extraction of file stores: the whole text of a text
\* file, the text of all pages of a PDF in page order.
FinalText(file) == IF file.type = TextType THEN <<0>> ELSE [i \in 1..file.numPages |-> i]

\* The document pieces of the parts of a message.
SentDocuments(parts) ==
  IF Len(parts) > 0 /\ parts[Len(parts)].kind = "text"
    THEN DocumentsOf(parts[Len(parts)].text) ELSE <<>>

\* C20: while the extraction of a document is in progress the form is
\* disabled; no send is accepted while the registry holds a document whose
\* extraction has not terminated; and every document of a message handed to
\* the chat service carries the final text of the file of its name.
C20_NoSendWhileExtracting ==
  /\ [](extracting # {} => ~formEnabled)
  /\ [][(last'.op = "submit")
          => /\ \A k \in 1..Len(attachedDocs) : attachedDocs[k].uid \notin extracting
             /\ Len(SentDocuments(lastMessage')) = Len(attachedDocs)
             /\ \A k \in 1..Len(SentDocuments(lastMessage')) :
                  \E f \in FileSet :
                    /\ IsDocument(f) /\ f.name = SentDocuments(lastMessage')[k][2]
                    /\ SentDocuments(lastMessage')[k][3] = FinalText(f)]_vars

\* C20 witness: a message with the two pages of an extracted PDF has been
\* handed to the chat service, no extraction being in progress.
C20_Witness ==
  /\ last.op = "submit" /\ extracting = {}
  /\ \E k \in 1..Len(SentDocuments(lastMessage)) : SentDocuments(lastMessage)[k][3] = <<1, 2>>

====
